---- MODULE Spec2Model ----
(***************************************************************************)
(* Model of the Supabase migration pipeline runner                         *)
(* (src/supabase_migration_orchestrator.py): main() constructs a           *)
(* SupabaseMigrationOrchestrator (validate_environment, setup_connections) *)
(* and calls run_migration, which runs the phases pre-flight checks,       *)
(* backup, schema files, data replay, validation, summary, and closes the  *)
(* connection in its finally clause.                                       *)
(*                                                                         *)
(* The database is the environment: the rows, tables, functions and the    *)
(* extension catalog the program reads and writes through its connection.  *)
(* A transient error of the database or of the filesystem is an input of   *)
(* the step that meets it; MaxFaults bounds how many a run meets.          *)
(***************************************************************************)
EXTENDS Integers, Sequences, FiniteSets, TLC

VARIABLES
    env,            \* the process environment after load_dotenv()
    pc,             \* position of main() / run_migration()
    conn,           \* self.db_connection: "none", "open", "closed"
    db,             \* the database as the session of the connection sees it
    committed,      \* the database as committed: what remains when the session ends
    rows0,          \* history: the row count of each table when the run connected
    backup,         \* backup_data, local to run_migration (the in-memory snapshot)
    backupFiles,    \* number of backup files written to supabase_migration_backup/
    report,         \* validation_results, local to run_migration
    result,         \* return value of run_migration: "none", "true", "false"
    exitCode,       \* status passed to sys.exit: -1 while running
    fileIdx,        \* position of the loop over migration_files, local to run_migration
    executed,       \* history: positions of the schema files executed, in order
    fileResults,    \* history: the return values of execute_migration_file, in order
    fileErrors,     \* the entries of level ERROR of the log about a schema file, in order
    phases,         \* history: phases of run_migration started, in order
    calls,          \* history: number of calls of each operation
    failures,       \* history: operations that reported a failure in this run
    faults,         \* number of transient errors met so far
    opsAfterClose,  \* history: a database operation was issued on a closed connection
    api,            \* the memory-enhanced API: the request being served and its history
    bmad            \* the BMADValidator: its scores, detailed_results and position

vars == <<env, pc, conn, db, committed, rows0, backup, backupFiles, report, result,
          exitCode, fileIdx, executed, fileResults, fileErrors, phases, calls,
          failures, faults, opsAfterClose, api, bmad>>

(* the variables of the migration runner *)
migrationVars ==
    <<env, pc, conn, db, committed, rows0, backup, backupFiles, report, result,
      exitCode, fileIdx, executed, fileResults, fileErrors, phases, calls,
      failures, faults, opsAfterClose>>

----------------------------------------------------------------------------
(* Bounds of the model *)

MaxRows == 3
MaxFaults == 1

(* entries of a context the memory service returns, numeric values of the  *)
(* lab data of a request                                                   *)
MaxEntries == 2

(* LIMIT of the backup queries, scaled from 1000 to fit MaxRows *)
RowCap == 2

----------------------------------------------------------------------------
(* Configuration *)

RequiredVars ==
    {"NEXT_PUBLIC_SUPABASE_URL", "NEXT_PUBLIC_SUPABASE_ANON_KEY",
     "SUPABASE_SERVICE_ROLE_KEY", "OPENAI_API_KEY"}

EnvValues == {"unset", "empty", "set"}

(* a variable passes only if it is set to a non-empty string *)
MissingVarsUnsetOnly(e) == {v \in RequiredVars : e[v] = "unset"}

(* missing_vars: `not os.getenv(var)` is true for None and for '' *)
MissingVars(e) == {v \in RequiredVars : e[v] \in {"unset", "empty"}}

----------------------------------------------------------------------------
(* The database *)

BackupTables == <<"rag_documents", "user_sessions", "conversation_messages">>

ExpectedTables ==
    <<"rag_documents", "rag_query_logs", "rag_feedback", "user_sessions",
      "conversation_messages", "memory_summaries", "user_context">>

ExpectedFunctions ==
    <<"search_rag_documents", "search_conversation_memory",
      "get_user_context_similarity", "log_rag_query">>

Range(s) == {s[i] : i \in 1..Len(s)}

TableNames == Range(ExpectedTables)

(* A row: its primary key id, its session_id (equal to id in the tables    *)
(* that have no such column), and val, the content of the type column      *)
(* (source_type / session_type): "absent" when the table has no such       *)
(* column, otherwise the stored value.                                     *)
Row == [id : 1..MaxRows, sid : 1..MaxRows, val : {"absent", "custom", "default"}]

(* the rows of a table in the order the table stores them *)
OldRows(n, v) == [i \in 1..n |-> [id |-> i, sid |-> i, val |-> v]]

(* The databases a run can start from: the vector extension unavailable,   *)
(* available or installed; each table of the backup set absent (-1) or     *)
(* holding rows, MaxRows rows at most in the whole database, in the legacy *)
(* layout (no type column) or in the current one; none of the other        *)
(* tables, functions, indexes, policies.                                   *)
Positive(n) == IF n > 0 THEN n ELSE 0

Databases ==
    { [ext |-> e,
       exists |-> {BackupTables[i] : i \in {j \in 1..3 : n[j] >= 0}},
       legacy |-> IF lg THEN {BackupTables[i] : i \in {j \in 1..3 : n[j] >= 0}} ELSE {},
       rows |-> [t \in TableNames |->
                    IF \E j \in 1..3 : BackupTables[j] = t /\ n[j] > 0
                    THEN OldRows(n[CHOOSE j \in 1..3 : BackupTables[j] = t],
                                 IF lg THEN "absent" ELSE "custom")
                    ELSE <<>>],
       functions |-> {},
       indexes |-> {},
       policies |-> {}] :
      e \in {"unavailable", "available", "installed"},
      lg \in BOOLEAN,
      n \in {m \in [1..3 -> -1..MaxRows] :
                 Positive(m[1]) + Positive(m[2]) + Positive(m[3]) <= MaxRows} }

NoDatabase ==
    [ext |-> "unavailable", exists |-> {}, legacy |-> {},
     rows |-> [t \in TableNames |-> <<>>],
     functions |-> {}, indexes |-> {}, policies |-> {}]

(* the number of rows of each table of the backup set, -1 for a table     *)
(* that does not exist                                                     *)
RowCounts(d) ==
    [t \in Range(BackupTables) |-> IF t \in d.exists THEN Len(d.rows[t]) ELSE -1]

----------------------------------------------------------------------------
(* The connection *)

(* the connection is left in the transaction mode of psycopg2: nothing is  *)
(* committed unless commit() is called, and the program never calls it     *)
AutocommitOff == FALSE

(* setup_connections: self.db_connection.autocommit = True *)
Autocommit == TRUE

(* the committed database after a statement changed the session's view     *)
(* from what was committed (was) into now                                  *)
Committed(now, was) == IF Autocommit THEN now ELSE was

----------------------------------------------------------------------------
(* Pre-flight checks *)

(* True is returned whatever became of the query *)
TestSupabaseConnectionIgnoringFailure(c, fault) == c = "open"

(* test_supabase_connection: SELECT version() on the connection; every    *)
(* exception is caught and turned into False                               *)
TestSupabaseConnection(c, fault) == c = "open" /\ ~fault

(* the check passes whenever the query itself does not fail *)
CheckPgvectorAnyResult(d, c, fault) == c = "open" /\ ~fault

(* check_pgvector_extension: a row of pg_available_extensions named       *)
(* 'vector' (listed when the extension is available or installed)          *)
CheckPgvectorExtension(d, c, fault) ==
    c = "open" /\ ~fault /\ d.ext \in {"available", "installed"}

----------------------------------------------------------------------------
(* backup_existing_data *)

Min(a, b) == IF a <= b THEN a ELSE b

EmptyBackup == [t \in Range(BackupTables) |-> <<>>]

(* the query carries no LIMIT *)
SelectAll(d, t) == d.rows[t]

(* the result of `SELECT * FROM t LIMIT RowCap`, each row as the dict of   *)
(* its columns: the query has no ORDER BY, the rows come as stored         *)
LimitedSelect(d, t) == SubSeq(d.rows[t], 1, Min(RowCap, Len(d.rows[t])))

(* one iteration of the loop over tables_to_backup: the entry of table t   *)
(* after it. An exception of either query is caught by the inner handler,  *)
(* and the entry stays the empty list; so it does for an absent table.     *)
BackupTable(d, t, fault) ==
    IF fault \/ t \notin d.exists THEN <<>> ELSE LimitedSelect(d, t)

(* the loop over tables_to_backup has no handler of its own: an exception  *)
(* of a query reaches the outer handler, the tables after it are not       *)
(* looked at and no file is written                                        *)
BackupExistingDataAbortsAtFailure(d, c, flt) ==
    LET Pos(t) == CHOOSE j \in 1..Len(BackupTables) : BackupTables[j] = t
        Reached(t) == \A u \in flt \cap Range(BackupTables) : Pos(t) < Pos(u)
    IN  IF c # "open" \/ "cursor" \in flt
        THEN [data |-> EmptyBackup, file |-> FALSE, ok |-> FALSE, db |-> d]
        ELSE [data |-> [t \in Range(BackupTables) |->
                           IF Reached(t) THEN BackupTable(d, t, FALSE) ELSE <<>>],
              file |-> flt = {},
              ok |-> flt = {},
              db |-> d]

(* the rows that were backed up are deleted from their table *)
BackupExistingDataConsuming(d, c, flt) ==
    IF c # "open" \/ "cursor" \in flt
    THEN [data |-> EmptyBackup, file |-> FALSE, ok |-> FALSE, db |-> d]
    ELSE [data |-> [t \in Range(BackupTables) |-> BackupTable(d, t, t \in flt)],
          file |-> "file" \notin flt,
          ok |-> "file" \notin flt,
          db |-> [d EXCEPT !.rows = [t \in TableNames |->
                     IF t \in Range(BackupTables) \ flt /\ t \in d.exists
                     THEN SubSeq(d.rows[t], Min(RowCap, Len(d.rows[t])) + 1, Len(d.rows[t]))
                     ELSE d.rows[t]]]]

(* backup_existing_data: the snapshot, whether the backup file was written *)
(* and the database after the call (its statements are SELECTs). flt is    *)
(* the set of places where an error is met: "cursor" (the cursor cannot be *)
(* obtained), a table name (one of its queries fails), "file"              *)
(* (makedirs/open/json.dump fails). The outer handler logs "Backup failed" *)
(* and returns the snapshot as filled so far.                              *)
BackupExistingData(d, c, flt) ==
    IF c # "open" \/ "cursor" \in flt
    THEN [data |-> EmptyBackup, file |-> FALSE, ok |-> FALSE, db |-> d]
    ELSE [data |-> [t \in Range(BackupTables) |-> BackupTable(d, t, t \in flt)],
          file |-> "file" \notin flt,
          ok |-> "file" \notin flt,
          db |-> d]

----------------------------------------------------------------------------
(* The schema files. Their SQL is not part of the sources: their effect    *)
(* is modelled from their names, from the objects validate_migration       *)
(* expects, and from the specification's description.                      *)

MigrationFiles ==
    <<"migrations/000_add_pgvector.sql", "migrations/001_create_rag_schema.sql",
      "migrations/002_create_memory_schema.sql", "migrations/003_create_functions.sql">>

NumFiles == Len(MigrationFiles)

Stmt(k, n) == [kind |-> k, name |-> n]

Statements(i) ==
    CASE i = 1 -> <<Stmt("extension", "vector")>>
      [] i = 2 -> <<Stmt("table", "rag_documents"), Stmt("table", "rag_query_logs"),
                    Stmt("table", "rag_feedback"),
                    Stmt("index", "rag_documents"), Stmt("policy", "rag_documents")>>
      [] i = 3 -> <<Stmt("table", "user_sessions"), Stmt("table", "conversation_messages"),
                    Stmt("table", "memory_summaries"), Stmt("table", "user_context"),
                    Stmt("index", "conversation_messages"), Stmt("index", "memory_summaries"),
                    Stmt("policy", "user_sessions"), Stmt("policy", "conversation_messages")>>
      [] OTHER -> [j \in 1..Len(ExpectedFunctions) |-> Stmt("function", ExpectedFunctions[j])]

(* one statement; recreate tells whether a CREATE TABLE replaces an        *)
(* existing table by an empty one or leaves it as it is                    *)
ApplyStmt(d, s, recreate) ==
    CASE s.kind = "extension" -> [d EXCEPT !.ext = "installed"]
      [] s.kind = "table" ->
            IF s.name \in d.exists /\ ~recreate THEN d
            ELSE [d EXCEPT !.exists = @ \cup {s.name},
                           !.legacy = @ \ {s.name},
                           !.rows[s.name] = <<>>]
      [] s.kind = "index" -> [d EXCEPT !.indexes = @ \cup {s.name}]
      [] s.kind = "policy" -> [d EXCEPT !.policies = @ \cup {s.name}]
      [] OTHER -> [d EXCEPT !.functions = @ \cup {s.name}]

RECURSIVE ApplyStmts(_, _, _, _)
ApplyStmts(d, ss, n, recreate) ==
    IF n = 0 THEN d
    ELSE ApplyStmt(ApplyStmts(d, ss, n - 1, recreate), ss[n], recreate)

(* a statement the database rejects whatever the circumstances *)
StmtRejected(d, s) == s.kind = "extension" /\ d.ext = "unavailable"

(* an entry of level ERROR naming the schema file at position i, logged by *)
(* the function who                                                        *)
FileError(who, i) == [by |-> who, file |-> i]

(* the file is opened and read before the try statement: the exception of  *)
(* a file that does not exist leaves the function                          *)
ExecuteMigrationFileReadOutsideTry(d, c, i, missing, done, recreate) ==
    LET ss == Statements(i)
        runs == c = "open" /\ ~missing
        ok == /\ runs
              /\ done = Len(ss)
              /\ \A j \in 1..Len(ss) : ~StmtRejected(d, ss[j])
    IN  [db |-> IF runs THEN ApplyStmts(d, ss, done, recreate) ELSE d,
         ok |-> ok,
         raised |-> missing,
         log |-> IF ok \/ missing THEN <<>>
                 ELSE <<FileError("execute_migration_file", i)>>]

(* True is returned whenever the file could be read, whatever became of    *)
(* its execution                                                           *)
ExecuteMigrationFileTrueAfterRead(d, c, i, missing, done, recreate) ==
    LET ss == Statements(i)
        runs == c = "open" /\ ~missing
    IN  [db |-> IF runs THEN ApplyStmts(d, ss, done, recreate) ELSE d,
         ok |-> runs,
         raised |-> FALSE,
         log |-> IF runs THEN <<>> ELSE <<FileError("execute_migration_file", i)>>]

(* execute_migration_file: missing tells whether the file does not exist,  *)
(* done is the number of statements of the file that took effect (all of   *)
(* them on success). open(), read() and cursor.execute() are all inside    *)
(* the try statement: every Exception (FileNotFoundError is one) is        *)
(* caught, logged and turned into False; nothing is raised.                *)
ExecuteMigrationFile(d, c, i, missing, done, recreate) ==
    LET ss == Statements(i)
        runs == c = "open" /\ ~missing
        ok == /\ runs
              /\ done = Len(ss)
              /\ \A j \in 1..Len(ss) : ~StmtRejected(d, ss[j])
    IN  [db |-> IF runs THEN ApplyStmts(d, ss, done, recreate) ELSE d,
         ok |-> ok,
         raised |-> FALSE,
         log |-> IF ok THEN <<>> ELSE <<FileError("execute_migration_file", i)>>]

----------------------------------------------------------------------------
(* migrate_existing_embeddings *)

(* the column named in the ON CONFLICT clause of the table's INSERT *)
ConflictColumn(t) == IF t = "user_sessions" THEN "sid" ELSE "id"

(* the values the INSERT binds for a backed-up row: dict.get with a        *)
(* default for the type column (source_type 'article', session_type       *)
(* 'health_consultation') when the backed-up row has no such key           *)
ReplayedRow(r) ==
    [id |-> r.id, sid |-> r.sid, val |-> IF r.val = "absent" THEN "default" ELSE r.val]

(* an INSERT that has no ON CONFLICT clause, into a table that does not    *)
(* enforce the key                                                         *)
InsertAlways(rows, t, r) == Append(rows, ReplayedRow(r))

(* INSERT ... ON CONFLICT (col) DO NOTHING of one row: the rows of the     *)
(* table after it, when the statement does not raise                       *)
InsertDoNothing(rows, t, r) ==
    LET new == ReplayedRow(r)
        col == ConflictColumn(t)
    IN  IF \E i \in 1..Len(rows) : rows[i][col] = new[col] THEN rows
        ELSE Append(rows, new)

(* the INSERT of row r raises whatever the circumstances: the table does   *)
(* not exist, it lacks a column the INSERT names, or the row violates the  *)
(* primary key without conflicting on the ON CONFLICT column               *)
InsertRejected(d, t, r) ==
    \/ t \notin d.exists
    \/ t \in d.legacy
    \/ /\ \A i \in 1..Len(d.rows[t]) :
             d.rows[t][i][ConflictColumn(t)] # r[ConflictColumn(t)]
       /\ \E i \in 1..Len(d.rows[t]) : d.rows[t][i].id = r.id

(* the rows of table t after the INSERTs of the first k rows of rs *)
RECURSIVE InsertRows(_, _, _, _)
InsertRows(rows, t, rs, k) ==
    IF k = 0 THEN rows
    ELSE InsertDoNothing(InsertRows(rows, t, rs, k - 1), t, rs[k])

ReplayTable(d, t, rs, k) ==
    [d EXCEPT !.rows[t] = InsertRows(@, t, rs, k)]

(* after k INSERTs of the block of table t, the next one raises *)
NextInsertRejected(d, t, rs, k) ==
    k < Len(rs) /\ InsertRejected(ReplayTable(d, t, rs, k), t, rs[k + 1])

(* the `with cursor` block of table t can execute exactly the first k      *)
(* INSERTs of the snapshot rs: none of them raises, and it stops before    *)
(* the end only on an INSERT that raises or on a transient error           *)
ReplayPossible(d, t, rs, k, fault) ==
    /\ k <= Len(rs)
    /\ \A j \in 0..(k - 1) : ~NextInsertRejected(d, t, rs, j)
    /\ fault => k < Len(rs) /\ ~NextInsertRejected(d, t, rs, k)
    /\ ~fault /\ k < Len(rs) => NextInsertRejected(d, t, rs, k)

(* migrate_existing_embeddings(backup_data): the database after it and     *)
(* its return value. k1 is the number of INSERTs executed in the           *)
(* rag_documents block, k2 in the user_sessions block. One try statement   *)
(* encloses both blocks: an exception in the first one ends the call. The  *)
(* snapshot of conversation_messages is not replayed.                      *)
MigrateExistingEmbeddings(d, c, b, k1, k2) ==
    LET t1 == "rag_documents"
        t2 == "user_sessions"
        ok1 == b[t1] = <<>> \/ (c = "open" /\ k1 = Len(b[t1]))
        d1 == IF c = "open" THEN ReplayTable(d, t1, b[t1], k1) ELSE d
        ok2 == b[t2] = <<>> \/ (c = "open" /\ k2 = Len(b[t2]))
        d2 == IF c = "open" THEN ReplayTable(d1, t2, b[t2], k2) ELSE d
    IN  IF ~ok1 THEN [db |-> d1, ok |-> FALSE]
        ELSE [db |-> d2, ok |-> ok2]

(* the inputs of a call that the database and the snapshot allow *)
MigrateInputsPossible(d, c, b, k1, f1, k2, f2) ==
    LET t1 == "rag_documents"
        t2 == "user_sessions"
        run1 == c = "open" /\ b[t1] # <<>>
        d1 == IF run1 THEN ReplayTable(d, t1, b[t1], k1) ELSE d
        run2 == c = "open" /\ (run1 => k1 = Len(b[t1])) /\ b[t2] # <<>>
    IN  /\ IF run1 THEN ReplayPossible(d, t1, b[t1], k1, f1) ELSE k1 = 0 /\ ~f1
        /\ IF run2 THEN ReplayPossible(d1, t2, b[t2], k2, f2) ELSE k2 = 0 /\ ~f2

----------------------------------------------------------------------------
(* validate_migration *)

EmptyReport ==
    [pgvector_enabled |-> FALSE, tables_created |-> <<>>, functions_created |-> <<>>,
     indexes_created |-> {}, data_migrated |-> <<>>, rls_policies |-> {}]

IndexedTables == {"rag_documents", "conversation_messages", "memory_summaries"}

PolicyTables == {"rag_documents", "user_sessions", "conversation_messages"}

Query(k, n) == [q |-> k, name |-> n]

RECURSIVE TableQueries(_, _)
TableQueries(d, i) ==
    IF i = 0 THEN <<>>
    ELSE TableQueries(d, i - 1)
         \o <<Query("exists", ExpectedTables[i])>>
         \o (IF ExpectedTables[i] \in d.exists
             THEN <<Query("count", ExpectedTables[i])>> ELSE <<>>)

(* the queries validate_migration issues, in order *)
ValidationQueries(d) ==
    <<Query("extension", "vector")>>
    \o TableQueries(d, Len(ExpectedTables))
    \o [j \in 1..Len(ExpectedFunctions) |-> Query("function", ExpectedFunctions[j])]
    \o <<Query("indexes", ""), Query("policies", "")>>

(* the count is taken from a query that carries the LIMIT of the backup *)
CountRowsLimited(d, t) == Min(RowCap, Len(d.rows[t]))

(* the COUNT query of validate_migration on table t *)
CountRows(d, t) == Len(d.rows[t])

(* a table that exists is counted but not listed *)
RecordQueryNotListing(rep, d, q) ==
    CASE q.q = "extension" -> [rep EXCEPT !.pgvector_enabled = (d.ext = "installed")]
      [] q.q = "exists" -> rep
      [] q.q = "count" ->
            [rep EXCEPT !.data_migrated = Append(@, <<q.name, CountRows(d, q.name)>>)]
      [] q.q = "function" ->
            IF q.name \in d.functions
            THEN [rep EXCEPT !.functions_created = Append(@, q.name)] ELSE rep
      [] q.q = "indexes" -> [rep EXCEPT !.indexes_created = d.indexes \cap IndexedTables]
      [] OTHER -> [rep EXCEPT !.rls_policies = d.policies \cap PolicyTables]

(* the report after one more query *)
RecordQuery(rep, d, q) ==
    CASE q.q = "extension" -> [rep EXCEPT !.pgvector_enabled = (d.ext = "installed")]
      [] q.q = "exists" ->
            IF q.name \in d.exists
            THEN [rep EXCEPT !.tables_created = Append(@, q.name)] ELSE rep
      [] q.q = "count" ->
            [rep EXCEPT !.data_migrated = Append(@, <<q.name, CountRows(d, q.name)>>)]
      [] q.q = "function" ->
            IF q.name \in d.functions
            THEN [rep EXCEPT !.functions_created = Append(@, q.name)] ELSE rep
      [] q.q = "indexes" -> [rep EXCEPT !.indexes_created = d.indexes \cap IndexedTables]
      [] OTHER -> [rep EXCEPT !.rls_policies = d.policies \cap PolicyTables]

RECURSIVE RecordQueries(_, _, _, _)
RecordQueries(rep, d, qs, n) ==
    IF n = 0 THEN rep
    ELSE RecordQuery(RecordQueries(rep, d, qs, n - 1), d, qs[n])

(* validate_migration: answered is the number of queries answered before   *)
(* an exception (all of them when none is raised); the handler returns the *)
(* report as filled so far                                                 *)
ValidateMigration(d, c, answered) ==
    IF c # "open" THEN [report |-> EmptyReport, ok |-> FALSE]
    ELSE [report |-> RecordQueries(EmptyReport, d, ValidationQueries(d), answered),
          ok |-> answered = Len(ValidationQueries(d))]

----------------------------------------------------------------------------
(* The memory-enhanced API (src/backend/memory_enhanced_api.py): the       *)
(* functions of MemoryEnhancedAPI. The memory service and the RAG service  *)
(* are the environment: what they answer is an input of the call.          *)

(* LabAnalysisRequest: session_id absent (None), the empty string or an    *)
(* id; include_context; labs is the number of numeric values of lab_data   *)
Requests ==
    [session : {"none", "empty", "s1"}, include_context : BOOLEAN, labs : 0..MaxEntries]

(* `request.session_id or str(uuid.uuid4())`: None and the empty string    *)
(* are both false                                                          *)
SessionId(req) == IF req.session \in {"none", "empty"} THEN "uuid" ELSE req.session

(* What a service can answer. conn_error: the request raises (connection   *)
(* refused, timeout). non200: an answer with another status than 200. The  *)
(* others are answers with status 200: ok, a body of the expected form     *)
(* with n entries; no_values, trends whose entries have no 'value' key;    *)
(* null_trends, {"trends": null}; no_content, memories without a 'content' *)
(* key; null, the body null; null_analysis, {"analysis": null};            *)
(* bad_sources, a 'sources' value that is not a list.                      *)
Answer(k, n) == [kind |-> k, n |-> n]

Failed == {Answer("conn_error", 0), Answer("non200", 0)}

TrendsAnswers ==
    Failed \cup {Answer("ok", n) : n \in 0..MaxEntries}
           \cup {Answer("no_values", 1), Answer("null_trends", 0)}

SearchAnswers ==
    Failed \cup {Answer("ok", n) : n \in 0..MaxEntries}
           \cup {Answer("no_content", 1), Answer("null", 0)}

RagAnswers ==
    Failed \cup {Answer("ok", 1), Answer("null_analysis", 0), Answer("bad_sources", 0)}

PostAnswers == Failed \cup {Answer("ok", 0)}

(* a context as the request handler holds it: its form and its entries *)
Context(f, n) == [form |-> f, n |-> n]

NoContext == Context("ok", 0)

(* _get_health_journey_context: the body of a 200 answer, {"trends": {}}   *)
(* otherwise                                                               *)
GetHealthJourneyContext(ans) ==
    IF ans \in Failed THEN NoContext ELSE Context(ans.kind, ans.n)

(* _get_memory_context: the body of a 200 answer, [] otherwise *)
GetMemoryContext(ans) ==
    IF ans \in Failed THEN NoContext ELSE Context(ans.kind, ans.n)

(* the context is fetched whatever the request says *)
FetchesAlways(req) == TRUE

(* `if request.include_context:` around each of the two fetches *)
Fetches(req) == req.include_context

(* _build_contextual_prompt raises: trend_data[-1]['value'] or             *)
(* memory['content'] is a KeyError                                         *)
PromptRaises(health, memory) ==
    health.form = "no_values" \/ memory.form = "no_content"

RagFallback == [analysis |-> "Analysis temporarily unavailable", sources |-> "empty"]

(* an empty dict is returned when the service fails: the caller's          *)
(* rag_response.get('analysis', '') is the empty string                    *)
GetRagAnalysisEmptyOnFailure(ans) ==
    CASE ans.kind = "ok" -> [analysis |-> "text", sources |-> "list"]
      [] ans.kind = "null_analysis" -> [analysis |-> "null", sources |-> "list"]
      [] ans.kind = "bad_sources" -> [analysis |-> "text", sources |-> "string"]
      [] OTHER -> [analysis |-> "", sources |-> "empty"]

(* _get_rag_analysis: the body of a 200 answer; the fixed answer for       *)
(* another status and for an exception                                     *)
GetRagAnalysis(ans) ==
    CASE ans.kind = "ok" -> [analysis |-> "text", sources |-> "list"]
      [] ans.kind = "null_analysis" -> [analysis |-> "null", sources |-> "list"]
      [] ans.kind = "bad_sources" -> [analysis |-> "text", sources |-> "string"]
      [] OTHER -> RagFallback

(* _extract_recommendations(rag_response.get('analysis', '')) raises:      *)
(* None has no split                                                       *)
RecommendationsRaise(rag) == rag.analysis = "null"

(* MemoryEnhancedResponse(...) raises: len(None) for a null context, a     *)
(* validation error for sources that are not a list                        *)
ResponseRaises(health, memory, rag) ==
    health.form = "null_trends" \/ memory.form = "null" \/ rag.sources = "string"

NoResponse == [status |-> 0]

(* the MemoryEnhancedResponse of lines 125-137 *)
Response(req, sid, health, memory, rag) ==
    [status |-> 200,
     analysis |-> rag.analysis,
     sources |-> rag.sources,
     health_journey_entries |-> health.n,
     memory_entries |-> memory.n,
     contextual_insights |-> req.include_context,
     personalized |-> req.include_context,
     session_id |-> sid,
     health_trends |-> IF req.include_context THEN health.n ELSE -1]

(* HTTPException(status_code=...) as the framework answers it *)
HttpError(code) == [status |-> code]

(* the answer of the memory service that a proxy function received, with   *)
(* its status                                                              *)
BackendAnswers ==
    {[kind |-> "ok", status |-> 200], [kind |-> "non200", status |-> 404],
     [kind |-> "non200", status |-> 503], [kind |-> "conn_error", status |-> 0]}

(* get_user_health_journey, create_user_session and                        *)
(* get_session_memory_context: the body for a 200 answer; for another      *)
(* status HTTPException(status_code=response.status_code) is raised inside *)
(* the try statement, and HTTPException is an Exception: the handler       *)
(* catches it and raises HTTPException(500), as it does for an exception   *)
(* of the request                                                          *)
ProxyResponse(ans) ==
    IF ans.kind = "ok" THEN [status |-> 200] ELSE HttpError(500)

(* the tasks are added in the other order *)
ScheduledTasksSwapped == <<"update_health_journey", "store_interaction_memory">>

(* the two calls of background_tasks.add_task, lines 108-123 *)
ScheduledTasks == <<"store_interaction_memory", "update_health_journey">>

(* _store_interaction_memory: the requests it sends, given the answer a to *)
(* the post of the user message. The status of the answer is not looked    *)
(* at; an exception of the post ends the function in its handler           *)
StoredMessages(a) ==
    IF a.kind = "conn_error" THEN <<"post_user">> ELSE <<"post_user", "post_assistant">>

(* no request is being served *)
ApiIdle ==
    [pc |-> "idle", endpoint |-> "none",
     req |-> [session |-> "none", include_context |-> FALSE, labs |-> 0],
     session_id |-> "none",
     health |-> NoContext, memory |-> NoContext, rag |-> RagFallback,
     answers |-> [trends |-> "none", search |-> "none", rag |-> "none",
                  user_post |-> "none", backend |-> 0],
     sent |-> <<>>, tasks |-> <<>>, ran |-> 0, response |-> NoResponse]

----------------------------------------------------------------------------
(* The BMAD validator (src/tools/summarize.py): BMADValidator              *)

(* Scores are percentages. Every content below gives a whole number of     *)
(* points, so the scores are integers; the weights are in hundredths and   *)
(* the weighted score in hundredths of a point.                            *)

Categories == <<"deployment", "security", "hipaa", "performance", "integration">>

CategorySet == {Categories[i] : i \in 1..Len(Categories)}

(* self.weights, in hundredths *)
Weights ==
    [deployment |-> 20, security |-> 20, hipaa |-> 25, performance |-> 20,
     integration |-> 15]

(* a file of the results directory that cannot be opened, or whose content *)
(* the analysis cannot parse                                               *)
MissingFile(name) == [name |-> name, state |-> "missing"]

(* deployment_accessibility.txt: whether HTTP_STATUS is 200 or 401, and    *)
(* the text after TIME_TOTAL: a number under 1.0, under 2.0, or larger, or *)
(* digits and dots float() rejects ("bad")                                 *)
AccessFiles ==
    {MissingFile("deployment_accessibility")} \cup
    [name : {"deployment_accessibility"}, state : {"read"}, status_ok : BOOLEAN,
     time : {"under1", "under2", "slow", "bad"}]

(* a file of test lines: the number of lines counted and of those counted  *)
(* as successful                                                           *)
LineFiles(name) ==
    {MissingFile(name)} \cup
    {f \in [name : {name}, state : {"read"}, total : {0, 1}, ok : {0, 1}] :
        f.ok <= f.total}

(* security_headers_raw.txt: which of the three markers it contains *)
RawHeaderFiles ==
    {MissingFile("security_headers_raw")} \cup
    [name : {"security_headers_raw"}, state : {"read"}, hsts : BOOLEAN,
     frame : BOOLEAN, cookie : BOOLEAN]

(* hipaa_tests.json: absent or not JSON, or an object with the keys        *)
(* success, numPassedTests, numTotalTests holding any numbers              *)
HipaaTestFiles ==
    {MissingFile("hipaa_tests")} \cup
    [name : {"hipaa_tests"}, state : {"read"}, success : {FALSE},
     passed : {0}, total : {1}] \cup
    [name : {"hipaa_tests"}, state : {"read"}, success : {TRUE},
     passed : {-1, 0, 1, 2}, total : {0, 1}]

(* performance_output.txt: the avg and p(95) of http_req_duration in ms    *)
(* and the percentage of checks succeeded, -1 where the text has no match  *)
K6Files ==
    {MissingFile("performance_output")} \cup
    [name : {"performance_output"}, state : {"read"}, avg : {-1, 10, 30, 70},
     p95 : {40, 70, 200}, checks : {100, 96}]

(* what an analysis makes of a category: the score returned, whether its   *)
(* outer handler ran (the detail entry is then the error line), whether    *)
(* an exception left the method                                            *)
Scored(s) == [score |-> s, failed |-> FALSE, raised |-> FALSE]

CategoryFailed == [score |-> 0, failed |-> TRUE, raised |-> FALSE]

CategoryRaised == [score |-> 0, failed |-> FALSE, raised |-> TRUE]

(* (ok / total) * points *)
Share(f, points) == (f.ok * points) \div f.total

(* analyze_deployment_results *)
AnalyzeDeploymentResults(access, apis) ==
    IF access.state = "missing" THEN CategoryFailed
    ELSE IF access.time = "bad" THEN CategoryFailed
    ELSE IF apis.state = "missing" THEN CategoryFailed
    ELSE Scored(Min((IF access.status_ok THEN 50 ELSE 0)
                    + (IF access.time \in {"under1", "under2"} THEN 25 ELSE 0)
                    + (IF apis.total > 0 THEN Share(apis, 25) ELSE 0), 100))

(* analyze_security_results *)
AnalyzeSecurityResults(headers, raw) ==
    IF headers.state = "missing" \/ raw.state = "missing" THEN CategoryFailed
    ELSE Scored(Min((IF headers.total > 0 THEN Share(headers, 60) ELSE 0)
                    + 40
                    + (IF raw.hsts THEN 5 ELSE 0)
                    + (IF raw.frame THEN 5 ELSE 0)
                    + (IF raw.cookie THEN 5 ELSE 0), 100))

(* the part of the HIPAA score the endpoints give: the inner handler       *)
(* passes over a file that cannot be read                                  *)
HipaaEndpointScore(endpoints) ==
    IF endpoints.state = "missing" THEN 0
    ELSE IF endpoints.total > 0 THEN Share(endpoints, 30) ELSE 0

(* analyze_hipaa_results: numPassedTests / numTotalTests raises            *)
(* ZeroDivisionError for a total of 0, caught by the outer handler         *)
AnalyzeHipaaResults(tests, endpoints) ==
    IF tests.state = "missing" THEN CategoryFailed
    ELSE IF tests.success /\ tests.total = 0 THEN CategoryFailed
    ELSE Scored(Min((IF tests.success THEN (tests.passed * 70) \div tests.total
                     ELSE 70)
                    + HipaaEndpointScore(endpoints), 100))

(* the score of the k6 output *)
K6Score(k6) ==
    (IF k6.avg < 0 THEN 0
     ELSE IF k6.avg < 25 THEN 50
     ELSE IF k6.avg < 50 THEN 40
     ELSE IF k6.avg < 100 THEN 25 ELSE 0)
    + (IF k6.p95 < 0 THEN 0
       ELSE IF k6.p95 < 50 THEN 40
       ELSE IF k6.p95 < 100 THEN 30 ELSE 0)
    + (IF k6.checks < 0 THEN 0
       ELSE IF k6.checks = 100 THEN 10
       ELSE IF k6.checks > 95 THEN 8 ELSE 0)

(* the fallback of analyze_performance_results, from the curl results *)
PerformanceFallback(access) ==
    IF access.state = "missing" THEN 50
    ELSE IF access.time = "bad" THEN 50
    ELSE IF access.time = "under1" THEN 85 ELSE 60

(* analyze_performance_results *)
AnalyzePerformanceResults(k6, access) ==
    IF k6.state = "missing" THEN Scored(Min(PerformanceFallback(access), 100))
    ELSE Scored(Min(K6Score(k6), 100))

(* the exception of the open() leaves the method *)
AnalyzeIntegrationResultsRaising(tests) ==
    IF tests.state = "missing" THEN CategoryRaised
    ELSE IF tests.total > 0 THEN Scored(Share(tests, 100)) ELSE Scored(0)

(* analyze_integration_results *)
AnalyzeIntegrationResults(tests) ==
    IF tests.state = "missing" THEN CategoryFailed
    ELSE IF tests.total > 0 THEN Scored(Share(tests, 100)) ELSE Scored(0)

(* the weighted sum of calculate_confidence_score over the first n         *)
(* categories, in hundredths of a point                                    *)
RECURSIVE WeightedScore(_, _)
WeightedScore(scores, n) ==
    IF n = 0 THEN 0
    ELSE WeightedScore(scores, n - 1) + scores[Categories[n]] * Weights[Categories[n]]

(* no score yet *)
NoScore == -1000

(* the validator as constructed, before calculate_confidence_score *)
BmadIdle ==
    [pc |-> "idle", access |-> MissingFile("deployment_accessibility"),
     scores |-> [c \in CategorySet |-> NoScore], details |-> {},
     failed |-> {}, missing |-> {}, weighted |-> NoScore]

----------------------------------------------------------------------------
(* The program: main() and run_migration() *)

Operations ==
    {"connect", "test_connection", "check_extension", "backup", "replay",
     "validate", "summary", "close"}

Init ==
    /\ env \in [RequiredVars -> EnvValues]
    /\ pc = "start"
    /\ conn = "none"
    /\ db = NoDatabase
    /\ committed = NoDatabase
    /\ rows0 = RowCounts(NoDatabase)
    /\ backup = EmptyBackup
    /\ backupFiles = 0
    /\ report = EmptyReport
    /\ result = "none"
    /\ exitCode = -1
    /\ fileIdx = 1
    /\ executed = <<>>
    /\ fileResults = <<>>
    /\ fileErrors = <<>>
    /\ phases = <<>>
    /\ calls = [o \in Operations |-> 0]
    /\ failures = {}
    /\ faults = 0
    /\ opsAfterClose = FALSE
    /\ api = ApiIdle
    /\ bmad = BmadIdle

Called(o) == [calls EXCEPT ![o] = @ + 1]

(* a database operation is issued on the connection *)
Issued == opsAfterClose' = (opsAfterClose \/ conn = "closed")

(* the transient errors a step may meet, given those met so far *)
FaultChoices == IF faults < MaxFaults THEN BOOLEAN ELSE {FALSE}

Met(fault) == faults' = faults + (IF fault THEN 1 ELSE 0)

(* the phases in the order of the statements of run_migration *)
PhaseOrderSchemaFirst ==
    <<"preflight", "schema", "backup", "replay", "validate", "summary">>

PhaseOrder ==
    <<"preflight", "backup", "schema", "replay", "validate", "summary">>

(* the phase whose statements follow those of phase p *)
NextPhase(p) ==
    LET i == CHOOSE j \in 1..Len(PhaseOrder) : PhaseOrder[j] = p
    IN  IF i = Len(PhaseOrder) THEN "finally" ELSE PhaseOrder[i + 1]

(* __init__: validate_environment() raises ValueError when a variable is   *)
(* missing; the exception leaves the constructor and reaches main()        *)
ValidateEnvironment ==
    /\ pc = "start"
    /\ pc' = IF MissingVars(env) # {} THEN "main_except" ELSE "setup"
    /\ failures' = IF MissingVars(env) # {} THEN failures \cup {"environment"} ELSE failures
    /\ UNCHANGED <<env, conn, db, committed, rows0, backup,
                   backupFiles, report, result, exitCode, fileIdx,
                   executed, fileResults, fileErrors, phases, calls,
                   faults, opsAfterClose,
                   api, bmad>>

(* __init__: setup_connections() connects to the database of the project;  *)
(* an exception of psycopg2.connect is logged and raised again             *)
SetupConnections ==
    /\ pc = "setup"
    /\ \E fault \in FaultChoices, d \in Databases :
          /\ Met(fault)
          /\ conn' = IF fault THEN "none" ELSE "open"
          /\ db' = IF fault THEN db ELSE d
          /\ committed' = IF fault THEN committed ELSE d
          /\ rows0' = IF fault THEN rows0 ELSE RowCounts(d)
          /\ pc' = IF fault THEN "main_except" ELSE "preflight"
          /\ failures' = IF fault THEN failures \cup {"connect"} ELSE failures
    /\ calls' = Called("connect")
    /\ UNCHANGED <<env, backup, backupFiles, report, result, exitCode,
                   fileIdx, executed, fileResults, fileErrors, phases,
                   opsAfterClose,
                   api, bmad>>

(* the failure of the connection test is logged and the run goes on *)
TestConnectionNotAborting ==
    /\ pc = "preflight"
    /\ Issued
    /\ \E fault \in FaultChoices :
          LET ok == TestSupabaseConnection(conn, fault)
          IN  /\ Met(fault)
              /\ pc' = "check_extension"
              /\ result' = result
              /\ failures' = IF ok THEN failures ELSE failures \cup {"test_connection"}
    /\ phases' = Append(phases, "preflight")
    /\ calls' = Called("test_connection")
    /\ UNCHANGED <<env, conn, db, committed, rows0, backup, backupFiles, report,
                   exitCode, fileIdx, executed, fileResults, fileErrors,
                   api, bmad>>

(* run_migration, phase 1, first check *)
TestConnection ==
    /\ pc = "preflight"
    /\ Issued
    /\ \E fault \in FaultChoices :
          LET ok == TestSupabaseConnection(conn, fault)
          IN  /\ Met(fault)
              /\ pc' = IF ok THEN "check_extension" ELSE "finally"
              /\ result' = IF ok THEN result ELSE "false"
              /\ failures' = IF ok THEN failures ELSE failures \cup {"test_connection"}
    /\ phases' = Append(phases, "preflight")
    /\ calls' = Called("test_connection")
    /\ UNCHANGED <<env, conn, db, committed, rows0, backup,
                   backupFiles, report, exitCode, fileIdx, executed,
                   fileResults, fileErrors,
                   api, bmad>>

(* run_migration, phase 1, second check *)
CheckExtension ==
    /\ pc = "check_extension"
    /\ Issued
    /\ \E fault \in FaultChoices :
          LET ok == CheckPgvectorExtension(db, conn, fault)
          IN  /\ Met(fault)
              /\ pc' = IF ok THEN NextPhase("preflight") ELSE "finally"
              /\ result' = IF ok THEN result ELSE "false"
              /\ failures' = IF ok THEN failures ELSE failures \cup {"check_extension"}
    /\ calls' = Called("check_extension")
    /\ UNCHANGED <<env, conn, db, committed, rows0, backup,
                   backupFiles, report, exitCode, fileIdx, executed,
                   fileResults, fileErrors, phases,
                   api, bmad>>

BackupFaultPlaces == {"cursor", "file"} \cup Range(BackupTables)

(* run_migration, phase 2 *)
Backup ==
    /\ pc = "backup"
    /\ Issued
    /\ \E flt \in SUBSET BackupFaultPlaces :
          /\ Cardinality(flt) <= MaxFaults - faults
          /\ "cursor" \in flt => flt = {"cursor"}
          /\ LET b == BackupExistingData(db, conn, flt)
             IN  /\ backup' = b.data
                 /\ db' = b.db
                 /\ committed' = Committed(b.db, committed)
                 /\ backupFiles' = backupFiles + (IF b.file THEN 1 ELSE 0)
                 /\ failures' = IF flt # {} \/ ~b.ok
                                THEN failures \cup flt \cup {"backup"}
                                ELSE failures
          /\ faults' = faults + Cardinality(flt)
    /\ pc' = NextPhase("backup")
    /\ phases' = Append(phases, "backup")
    /\ calls' = Called("backup")
    /\ UNCHANGED <<env, conn, rows0, report, result, exitCode, fileIdx,
                   executed, fileResults, fileErrors,
                   api, bmad>>

(* the loop goes on to the next file whatever the file returned *)
AfterFileIgnoringResult(ok, i) ==
    [pc |-> IF i = NumFiles THEN NextPhase("schema") ELSE "schema",
     fileIdx |-> i + 1,
     result |-> "none",
     log |-> <<>>]

(* the loop returns False on a failure without an entry of its own *)
AfterFileNotLogging(ok, i) ==
    IF ~ok THEN [pc |-> "finally", fileIdx |-> i, result |-> "false", log |-> <<>>]
    ELSE [pc |-> IF i = NumFiles THEN NextPhase("schema") ELSE "schema",
          fileIdx |-> i + 1,
          result |-> "none",
          log |-> <<>>]

(* a file that failed is executed again *)
AfterFileRetrying(ok, i) ==
    IF ~ok THEN [pc |-> "schema", fileIdx |-> i, result |-> "none",
                 log |-> <<FileError("run_migration", i)>>]
    ELSE [pc |-> IF i = NumFiles THEN NextPhase("schema") ELSE "schema",
          fileIdx |-> i + 1,
          result |-> "none",
          log |-> <<>>]

(* the loop over migration_files after the file at position i returned ok: *)
(* on a failure "Migration failed at <file>" is logged as an error and     *)
(* False is returned; otherwise the next file or the next phase            *)
AfterFile(ok, i) ==
    IF ~ok THEN [pc |-> "finally", fileIdx |-> i, result |-> "false",
                 log |-> <<FileError("run_migration", i)>>]
    ELSE [pc |-> IF i = NumFiles THEN NextPhase("schema") ELSE "schema",
          fileIdx |-> i + 1,
          result |-> "none",
          log |-> <<>>]

(* the handler of run_migration for an exception raised inside its try     *)
(* statement: "Migration orchestrator failed" is logged, False is returned *)
AfterException(i) ==
    [pc |-> "finally", fileIdx |-> i, result |-> "false", log |-> <<>>]

(* a False of migrate_existing_embeddings ends the run with False *)
AfterReplayAborting(ok) ==
    IF ok THEN [pc |-> NextPhase("replay"), result |-> "none"]
    ELSE [pc |-> "finally", result |-> "false"]

(* run_migration after migrate_existing_embeddings returned ok: a False    *)
(* is only logged as a warning                                             *)
AfterReplay(ok) == [pc |-> NextPhase("replay"), result |-> "none"]

(* run_migration, phase 3: one iteration of the loop over migration_files. *)
(* missing tells whether the file does not exist, done is the number of    *)
(* statements of the file that took effect.                                *)
ExecuteFile ==
    /\ pc = "schema"
    /\ fileIdx <= NumFiles
    /\ Issued
    /\ \E missing \in FaultChoices, done \in 0..Len(Statements(fileIdx)),
          recreate \in BOOLEAN :
          LET ss == Statements(fileIdx)
              rejected == done < Len(ss) /\ StmtRejected(db, ss[done + 1])
              fault == ~missing /\ done < Len(ss) /\ ~rejected /\ conn = "open"
              r == ExecuteMigrationFile(db, conn, fileIdx, missing, done, recreate)
              a == IF r.raised THEN AfterException(fileIdx) ELSE AfterFile(r.ok, fileIdx)
          IN  /\ \A j \in 1..done : ~StmtRejected(db, ss[j])
              /\ conn # "open" \/ missing => done = 0 /\ ~recreate
              /\ fault => faults < MaxFaults
              /\ Met(fault \/ missing)
              /\ db' = r.db
              /\ committed' = Committed(r.db, committed)
              /\ failures' = failures
                              \cup (IF missing THEN {"file_missing"} ELSE {})
                              \cup (IF r.raised THEN {"run_migration"} ELSE {})
                              \cup (IF ~r.raised /\ ~r.ok THEN {"schema_file"} ELSE {})
              /\ result' = a.result
              /\ pc' = a.pc
              /\ fileIdx' = a.fileIdx
              /\ fileResults' = IF r.raised THEN fileResults
                                ELSE Append(fileResults, r.ok)
              /\ fileErrors' = fileErrors \o r.log \o a.log
    /\ executed' = Append(executed, fileIdx)
    /\ phases' = IF fileIdx = 1 THEN Append(phases, "schema") ELSE phases
    /\ UNCHANGED <<env, conn, rows0, backup, backupFiles, report, exitCode,
                   calls,
                   api, bmad>>

(* run_migration, phase 4 *)
Replay ==
    /\ pc = "replay"
    /\ Issued
    /\ \E k1 \in 0..Len(backup["rag_documents"]), f1 \in FaultChoices,
          k2 \in 0..Len(backup["user_sessions"]), f2 \in FaultChoices :
          /\ MigrateInputsPossible(db, conn, backup, k1, f1, k2, f2)
          /\ LET r == MigrateExistingEmbeddings(db, conn, backup, k1, k2)
             IN  /\ db' = r.db
                 /\ committed' = Committed(r.db, committed)
                 /\ failures' = IF r.ok THEN failures ELSE failures \cup {"replay"}
                 /\ pc' = AfterReplay(r.ok).pc
                 /\ result' = AfterReplay(r.ok).result
          /\ Met(f1 \/ f2)
    /\ phases' = Append(phases, "replay")
    /\ calls' = Called("replay")
    /\ UNCHANGED <<env, conn, rows0, backup, backupFiles, report,
                   exitCode, fileIdx, executed, fileResults,
                   fileErrors,
                   api, bmad>>

(* run_migration, phase 5 *)
Validate ==
    /\ pc = "validate"
    /\ Issued
    /\ \E answered \in 0..Len(ValidationQueries(db)) :
          LET fault == conn = "open" /\ answered < Len(ValidationQueries(db))
              v == ValidateMigration(db, conn, answered)
          IN  /\ fault => faults < MaxFaults
              /\ conn # "open" => answered = 0
              /\ Met(fault)
              /\ report' = v.report
              /\ failures' = IF v.ok THEN failures ELSE failures \cup {"validate"}
    /\ pc' = NextPhase("validate")
    /\ phases' = Append(phases, "validate")
    /\ calls' = Called("validate")
    /\ UNCHANGED <<env, conn, db, committed, rows0, backup,
                   backupFiles, result, exitCode, fileIdx, executed,
                   fileResults, fileErrors,
                   api, bmad>>

(* run_migration, phase 6: the summary is logged and True is returned *)
Summary ==
    /\ pc = "summary"
    /\ pc' = NextPhase("summary")
    /\ result' = "true"
    /\ phases' = Append(phases, "summary")
    /\ calls' = Called("summary")
    /\ UNCHANGED <<env, conn, db, committed, rows0, backup,
                   backupFiles, report, exitCode, fileIdx, executed,
                   fileResults, fileErrors, failures, faults,
                   opsAfterClose,
                   api, bmad>>

(* the connection is closed only when the run completed *)
FinallyOnSuccessOnly ==
    /\ pc = "finally"
    /\ conn' = IF result = "true" THEN "closed" ELSE conn
    /\ calls' = IF result = "true" THEN Called("close") ELSE calls
    /\ pc' = "returned"
    /\ backup' = EmptyBackup
    /\ report' = EmptyReport
    /\ fileIdx' = 1
    /\ db' = committed
    /\ UNCHANGED <<env, committed, rows0, backupFiles, result, exitCode,
                   executed, fileResults, fileErrors, phases, failures,
                   faults, opsAfterClose,
                   api, bmad>>

(* the finally clause of run_migration: db_connection is an attribute of   *)
(* every constructed orchestrator, so the connection is closed, and what   *)
(* the session has not committed is gone; then the call returns and its    *)
(* local variables (backup_data, validation_results, the loop position)    *)
(* are gone                                                                *)
Finally ==
    /\ pc = "finally"
    /\ conn' = "closed"
    /\ calls' = Called("close")
    /\ pc' = "returned"
    /\ backup' = EmptyBackup
    /\ report' = EmptyReport
    /\ fileIdx' = 1
    /\ db' = committed
    /\ UNCHANGED <<env, committed, rows0, backupFiles, result, exitCode,
                   executed, fileResults, fileErrors, phases, failures,
                   faults, opsAfterClose,
                   api, bmad>>

(* the SystemExit of sys.exit(0) is caught by the handler of main(), which  *)
(* exits with 1                                                            *)
MainExitCaughtByHandler ==
    /\ pc = "returned"
    /\ exitCode' = 1
    /\ pc' = "exited"
    /\ UNCHANGED <<env, conn, db, committed, rows0, backup,
                   backupFiles, report, result, fileIdx, executed,
                   fileResults, fileErrors, phases, calls, failures,
                   faults, opsAfterClose,
                   api, bmad>>

(* main(): run_migration returned; sys.exit(0) on True, sys.exit(1) on     *)
(* False. sys.exit raises SystemExit, which is not an Exception: the       *)
(* handler of main() does not catch it                                     *)
MainExit ==
    /\ pc = "returned"
    /\ exitCode' = IF result = "true" THEN 0 ELSE 1
    /\ pc' = "exited"
    /\ UNCHANGED <<env, conn, db, committed, rows0, backup,
                   backupFiles, report, result, fileIdx, executed,
                   fileResults, fileErrors, phases, calls, failures,
                   faults, opsAfterClose,
                   api, bmad>>

(* main(): the handler of an exception of the constructor *)
MainExcept ==
    /\ pc = "main_except"
    /\ exitCode' = 1
    /\ pc' = "exited"
    /\ UNCHANGED <<env, conn, db, committed, rows0, backup,
                   backupFiles, report, result, fileIdx, executed,
                   fileResults, fileErrors, phases, calls, failures,
                   faults, opsAfterClose,
                   api, bmad>>

Next ==
    \/ ValidateEnvironment
    \/ SetupConnections
    \/ TestConnection
    \/ CheckExtension
    \/ Backup
    \/ ExecuteFile
    \/ Replay
    \/ Validate
    \/ Summary
    \/ Finally
    \/ MainExit
    \/ MainExcept

Spec == Init /\ [][Next]_vars

(* the process is the only thread and every call returns: a step that can  *)
(* be taken is taken                                                       *)
FairSpec == Spec /\ WF_vars(Next)

----------------------------------------------------------------------------
(* The memory-enhanced API serving one request *)

(* the migration runner is not running *)
MigrationNotStarted ==
    /\ env = [v \in RequiredVars |-> "set"]
    /\ pc = "start"
    /\ conn = "none"
    /\ db = NoDatabase
    /\ committed = NoDatabase
    /\ rows0 = RowCounts(NoDatabase)
    /\ backup = EmptyBackup
    /\ backupFiles = 0
    /\ report = EmptyReport
    /\ result = "none"
    /\ exitCode = -1
    /\ fileIdx = 1
    /\ executed = <<>>
    /\ fileResults = <<>>
    /\ fileErrors = <<>>
    /\ phases = <<>>
    /\ calls = [o \in Operations |-> 0]
    /\ failures = {}
    /\ faults = 0
    /\ opsAfterClose = FALSE

ApiInit ==
    /\ MigrationNotStarted
    /\ api = ApiIdle
    /\ bmad = BmadIdle

(* POST /analyze-with-memory: create_contextual_analysis starts; line 78 *)
ReceiveAnalysisRequest ==
    /\ api.pc = "idle"
    /\ \E req \in Requests :
          api' = [api EXCEPT !.pc = "ensure",
                             !.endpoint = "create_contextual_analysis",
                             !.req = req,
                             !.session_id = SessionId(req)]
    /\ UNCHANGED <<migrationVars, bmad>>

(* _ensure_user_session: the session is posted; the answer is not looked   *)
(* at and an exception is logged                                           *)
EnsureUserSession ==
    /\ api.pc = "ensure"
    /\ \E ans \in PostAnswers :
          api' = [api EXCEPT !.pc = "trends", !.sent = Append(@, "ensure_session")]
    /\ UNCHANGED <<migrationVars, bmad>>

(* lines 84-86 *)
FetchHealthContext ==
    /\ api.pc = "trends"
    /\ \E ans \in TrendsAnswers :
          api' = IF Fetches(api.req)
                 THEN [api EXCEPT !.pc = "search",
                                  !.sent = Append(@, "trends"),
                                  !.answers.trends = ans.kind,
                                  !.health = GetHealthJourneyContext(ans)]
                 ELSE [api EXCEPT !.pc = "search"]
    /\ UNCHANGED <<migrationVars, bmad>>

(* lines 89-91 *)
FetchMemoryContext ==
    /\ api.pc = "search"
    /\ \E ans \in SearchAnswers :
          api' = IF Fetches(api.req)
                 THEN [api EXCEPT !.pc = "prompt",
                                  !.sent = Append(@, "search"),
                                  !.answers.search = ans.kind,
                                  !.memory = GetMemoryContext(ans)]
                 ELSE [api EXCEPT !.pc = "prompt"]
    /\ UNCHANGED <<migrationVars, bmad>>

(* lines 94-99 *)
BuildContextualPrompt ==
    /\ api.pc = "prompt"
    /\ api' = [api EXCEPT !.pc = IF PromptRaises(api.health, api.memory)
                                 THEN "except" ELSE "rag"]
    /\ UNCHANGED <<migrationVars, bmad>>

(* line 102 *)
RagAnalysis ==
    /\ api.pc = "rag"
    /\ \E ans \in RagAnswers :
          api' = [api EXCEPT !.pc = "recommendations",
                             !.sent = Append(@, "rag"),
                             !.answers.rag = ans.kind,
                             !.rag = GetRagAnalysis(ans)]
    /\ UNCHANGED <<migrationVars, bmad>>

(* line 105 *)
ExtractRecommendations ==
    /\ api.pc = "recommendations"
    /\ api' = [api EXCEPT !.pc = IF RecommendationsRaise(api.rag)
                                 THEN "except" ELSE "add_tasks"]
    /\ UNCHANGED <<migrationVars, bmad>>

(* lines 108-123 *)
AddTasks ==
    /\ api.pc = "add_tasks"
    /\ api' = [api EXCEPT !.pc = "response", !.tasks = @ \o ScheduledTasks]
    /\ UNCHANGED <<migrationVars, bmad>>

(* lines 125-137 *)
BuildResponse ==
    /\ api.pc = "response"
    /\ api' = IF ResponseRaises(api.health, api.memory, api.rag)
              THEN [api EXCEPT !.pc = "except"]
              ELSE [api EXCEPT !.pc = "responded",
                               !.response = Response(api.req, api.session_id,
                                                     api.health, api.memory, api.rag)]
    /\ UNCHANGED <<migrationVars, bmad>>

(* lines 139-141: the handler of create_contextual_analysis *)
HandleException ==
    /\ api.pc = "except"
    /\ api' = [api EXCEPT !.pc = "failed", !.response = HttpError(500)]
    /\ UNCHANGED <<migrationVars, bmad>>

(* the tasks added are run in the order they were added, after the         *)
(* response of the route function was sent; the response of an             *)
(* HTTPException carries no tasks                                          *)
TaskToRun(t) ==
    /\ api.pc = "responded"
    /\ api.ran < Len(api.tasks)
    /\ api.tasks[api.ran + 1] = t

(* _store_interaction_memory *)
StoreInteractionMemory ==
    /\ TaskToRun("store_interaction_memory")
    /\ \E a \in PostAnswers :
          api' = [api EXCEPT !.ran = @ + 1,
                             !.answers.user_post = a.kind,
                             !.sent = @ \o StoredMessages(a)]
    /\ UNCHANGED <<migrationVars, bmad>>

(* _update_health_journey: one post for each numeric value of lab_data, up *)
(* to the first post that raises                                           *)
UpdateHealthJourney ==
    /\ TaskToRun("update_health_journey")
    /\ \E k \in 0..api.req.labs :
          /\ api.req.labs > 0 => k > 0
          /\ api' = [api EXCEPT !.ran = @ + 1,
                                !.sent = @ \o [j \in 1..k |-> "post_journey"]]
    /\ UNCHANGED <<migrationVars, bmad>>

(* one of the three functions that pass a request on to the memory         *)
(* service: the request is sent and the answer ans is turned into the      *)
(* response                                                                *)
Proxied(name, ans) ==
    [api EXCEPT !.pc = "proxied",
                !.endpoint = name,
                !.sent = Append(@, name),
                !.answers.backend = ans.status,
                !.response = ProxyResponse(ans)]

(* GET /health-journey/{user_id} *)
GetUserHealthJourney ==
    /\ api.pc = "idle"
    /\ \E ans \in BackendAnswers : api' = Proxied("get_user_health_journey", ans)
    /\ UNCHANGED <<migrationVars, bmad>>

(* POST /sessions *)
CreateUserSession ==
    /\ api.pc = "idle"
    /\ \E ans \in BackendAnswers : api' = Proxied("create_user_session", ans)
    /\ UNCHANGED <<migrationVars, bmad>>

(* GET /sessions/{session_id}/context *)
GetSessionMemoryContext ==
    /\ api.pc = "idle"
    /\ \E ans \in BackendAnswers : api' = Proxied("get_session_memory_context", ans)
    /\ UNCHANGED <<migrationVars, bmad>>

ApiNext ==
    \/ ReceiveAnalysisRequest
    \/ EnsureUserSession
    \/ FetchHealthContext
    \/ FetchMemoryContext
    \/ BuildContextualPrompt
    \/ RagAnalysis
    \/ ExtractRecommendations
    \/ AddTasks
    \/ BuildResponse
    \/ HandleException
    \/ StoreInteractionMemory
    \/ UpdateHealthJourney
    \/ GetUserHealthJourney
    \/ CreateUserSession
    \/ GetSessionMemoryContext

ApiSpec == ApiInit /\ [][ApiNext]_vars

----------------------------------------------------------------------------
(* The BMAD validator computing its confidence score *)

(* the results directory holds any deployment_accessibility.txt; the other *)
(* files are inputs of the analysis that reads them                        *)
BmadInit ==
    /\ MigrationNotStarted
    /\ api = ApiIdle
    /\ bmad \in {[BmadIdle EXCEPT !.access = a] : a \in AccessFiles}

(* the validator after the analysis of category c gave o, having been      *)
(* given the files fs: self.scores[c] and self.detailed_results[c] are set *)
(* unless an exception left the method                                     *)
Analysed(b, c, next, o, fs) ==
    IF o.raised THEN [b EXCEPT !.pc = "raised"]
    ELSE [b EXCEPT !.pc = next,
                   !.scores[c] = o.score,
                   !.details = @ \cup {c},
                   !.failed = IF o.failed THEN @ \cup {c} ELSE @,
                   !.missing = @ \cup {f.name : f \in {g \in fs : g.state = "missing"}}]

(* calculate_confidence_score is called *)
CalculateConfidenceScore ==
    /\ bmad.pc = "idle"
    /\ bmad' = [bmad EXCEPT !.pc = "deployment"]
    /\ UNCHANGED <<migrationVars, api>>

AnalyzeDeployment ==
    /\ bmad.pc = "deployment"
    /\ \E apis \in LineFiles("api_endpoints") :
          bmad' = Analysed(bmad, "deployment", "security",
                           AnalyzeDeploymentResults(bmad.access, apis),
                           {bmad.access, apis})
    /\ UNCHANGED <<migrationVars, api>>

AnalyzeSecurity ==
    /\ bmad.pc = "security"
    /\ \E headers \in LineFiles("security_headers"), raw \in RawHeaderFiles :
          bmad' = Analysed(bmad, "security", "hipaa",
                           AnalyzeSecurityResults(headers, raw), {headers, raw})
    /\ UNCHANGED <<migrationVars, api>>

AnalyzeHipaa ==
    /\ bmad.pc = "hipaa"
    /\ \E tests \in HipaaTestFiles, endpoints \in LineFiles("hipaa_endpoints") :
          bmad' = Analysed(bmad, "hipaa", "performance",
                           AnalyzeHipaaResults(tests, endpoints), {tests, endpoints})
    /\ UNCHANGED <<migrationVars, api>>

(* deployment_accessibility.txt is read by the fallback only *)
AnalyzePerformance ==
    /\ bmad.pc = "performance"
    /\ \E k6 \in K6Files :
          bmad' = Analysed(bmad, "performance", "integration",
                           AnalyzePerformanceResults(k6, bmad.access),
                           IF k6.state = "missing" THEN {k6, bmad.access} ELSE {k6})
    /\ UNCHANGED <<migrationVars, api>>

AnalyzeIntegration ==
    /\ bmad.pc = "integration"
    /\ \E tests \in LineFiles("integration_tests") :
          bmad' = Analysed(bmad, "integration", "sum",
                           AnalyzeIntegrationResults(tests), {tests})
    /\ UNCHANGED <<migrationVars, api>>

(* the loop over self.scores and the return *)
ReturnWeightedScore ==
    /\ bmad.pc = "sum"
    /\ bmad' = [bmad EXCEPT !.pc = "done",
                            !.weighted = WeightedScore(bmad.scores, Len(Categories))]
    /\ UNCHANGED <<migrationVars, api>>

BmadNext ==
    \/ CalculateConfidenceScore
    \/ AnalyzeDeployment
    \/ AnalyzeSecurity
    \/ AnalyzeHipaa
    \/ AnalyzePerformance
    \/ AnalyzeIntegration
    \/ ReturnWeightedScore

BmadSpec == BmadInit /\ [][BmadNext]_vars

----------------------------------------------------------------------------
(* Properties *)

Finished == pc \in {"returned", "exited"} /\ result # "none"

FatalOperations == {"test_connection", "check_extension", "schema_file"}

(* C1: the schema files are executed in the order of migration_files, and  *)
(* once execute_migration_file has returned False for the file at position *)
(* i no file at a position greater than i is executed: the files executed  *)
(* are the positions 1, 2, ... in order, and only the last of them can     *)
(* have failed.                                                            *)
C1_FilesInOrderStopAtFailure ==
    /\ Len(executed) <= NumFiles
    /\ Len(fileResults) = Len(executed)
    /\ \A k \in 1..Len(executed) : executed[k] = k
    /\ \A k \in 1..(Len(executed) - 1) : fileResults[k]

C1_Witness ==
    /\ pc = "exited"
    /\ executed = <<1, 2>>
    /\ fileResults = <<TRUE, FALSE>>

(* C2 (as claimed): for every table of the backup set that existed with N  *)
(* rows when the run connected (N within the LIMIT of the backup query),   *)
(* a replay into the empty migrated table, in a run that met no transient  *)
(* error, leaves exactly N rows in it.                                     *)
C2_RoundTripKeepsAllRows ==
    [][(/\ pc = "replay"
        /\ pc' # "replay"
        /\ faults' = 0)
       => \A t \in Range(BackupTables) :
             (rows0[t] >= 0 /\ rows0[t] <= RowCap /\ db.rows[t] = <<>>)
                => Len(db'.rows[t]) = rows0[t]]_vars

(* C3: run_migration returns False exactly when the connection test, the   *)
(* extension check or the execution of a schema file failed; a failure of  *)
(* the backup, of the replay or of the validation does not make it return  *)
(* False.                                                                  *)
C3_FailureIffFatal ==
    Finished => (result = "false" <=> failures \cap FatalOperations # {})

C3_Witness ==
    /\ pc = "exited"
    /\ result = "true"
    /\ {"backup", "replay"} \subseteq failures

(* C4: once the pre-flight checks have passed and all schema files have    *)
(* succeeded, the validation and the summary are eventually executed,      *)
(* whatever migrate_existing_embeddings returns.                           *)
C4_ValidationAndSummaryReached ==
    (Len(fileResults) = NumFiles /\ fileResults[NumFiles])
        ~> (calls["validate"] = 1 /\ calls["summary"] = 1)

C4_Witness ==
    /\ calls["validate"] = 1
    /\ calls["summary"] = 1
    /\ "replay" \in failures

(* C5: when a required variable is unset or empty, validate_environment    *)
(* raises, and no connection is opened and no database operation is issued *)
(* in that process.                                                        *)
C5_MissingVariableRaisesBeforeConnect ==
    ((\E v \in RequiredVars : env[v] \in {"unset", "empty"}) /\ pc # "start")
        => /\ pc \in {"main_except", "exited"}
           /\ "environment" \in failures
           /\ conn = "none"
           /\ \A o \in Operations : calls[o] = 0
           /\ exitCode \in {-1, 1}

C5_Witness ==
    /\ pc = "main_except"
    /\ \E v \in RequiredVars : env[v] = "empty"
    /\ \A v \in RequiredVars : env[v] # "unset"
    /\ calls["connect"] = 0

(* C6: on a database where the vector extension is not available, the      *)
(* extension check returns False and run_migration returns False without   *)
(* having executed any schema file.                                        *)
C6_NoExtensionNoSchemaFile ==
    (conn # "none" /\ db.ext = "unavailable")
        => /\ executed = <<>>
           /\ calls["check_extension"] = 1
                => ("check_extension" \in failures /\ result = "false")
           /\ pc \in {"preflight", "check_extension", "finally", "returned", "exited"}

C6_Witness ==
    /\ pc = "exited"
    /\ db.ext = "unavailable"
    /\ faults = 0
    /\ calls["check_extension"] = 1
    /\ executed = <<>>
    /\ exitCode = 1

(* C7: the phases of run_migration start in the order pre-flight, backup,  *)
(* schema files, replay, validation, summary, each at most once, and the   *)
(* backup has been taken when the first schema file is executed.           *)
C7_PhasesInOrder ==
    LET order == <<"preflight", "backup", "schema", "replay", "validate", "summary">>
    IN  /\ Len(phases) <= Len(order)
        /\ \A k \in 1..Len(phases) : phases[k] = order[k]
        /\ \A o \in Operations : calls[o] <= 1
        /\ executed # <<>> => calls["backup"] = 1

C7_Witness ==
    /\ pc = "exited"
    /\ Len(phases) = 6
    /\ backupFiles = 1

(* the key of every row of the snapshot rs is in table t of database d *)
AllReplayed(d, t, rs) ==
    \A i \in 1..Len(rs) :
        \E j \in 1..Len(d.rows[t]) :
            d.rows[t][j][ConflictColumn(t)] = rs[i][ConflictColumn(t)]

(* C8 (as claimed): when the replay of rag_documents fails, the backed-up  *)
(* user_sessions rows are still replayed (the user_sessions table being    *)
(* one that accepts them).                                                 *)
C8_FailedTableDoesNotStopReplay ==
    [][(/\ pc = "replay"
        /\ pc' # "replay"
        /\ conn = "open"
        /\ "user_sessions" \in db.exists \ db.legacy
        /\ ~AllReplayed(db', "rag_documents", backup["rag_documents"]))
       => AllReplayed(db', "user_sessions", backup["user_sessions"])]_vars

(* the database after a call of migrate_existing_embeddings on d that      *)
(* meets no transient error                                                *)
Replayed(d) ==
    {MigrateExistingEmbeddings(d, conn, backup, k1, k2).db :
        <<k1, k2>> \in {kk \in (0..Len(backup["rag_documents"]))
                                 \X (0..Len(backup["user_sessions"])) :
                           MigrateInputsPossible(d, conn, backup,
                                                 kk[1], FALSE, kk[2], FALSE)}}

IsPrefix(s, t) == Len(s) <= Len(t) /\ SubSeq(t, 1, Len(s)) = s

(* C9: migrate_existing_embeddings is idempotent: a second call with the   *)
(* same snapshot leaves every table as the first call left it (calls that  *)
(* meet no transient error), and the rows a table held before a call are   *)
(* in it unchanged after the call.                                         *)
C9_ReplayIdempotent ==
    /\ pc = "replay" =>
          \A d1 \in Replayed(db) :
              /\ \A d2 \in Replayed(d1) : d2 = d1
              /\ \A t \in TableNames : IsPrefix(db.rows[t], d1.rows[t])
    /\ (pc = "validate" /\ "replay" \notin failures) =>
          /\ \A d2 \in Replayed(db) : d2 = db
          /\ \A t \in {"rag_documents", "user_sessions"} :
                AllReplayed(db, t, backup[t])

C9_Witness ==
    /\ pc = "validate"
    /\ "replay" \notin failures
    /\ Len(backup["rag_documents"]) = 2
    /\ Len(db.rows["rag_documents"]) = 2
    /\ Len(backup["user_sessions"]) = 1
    /\ Len(db.rows["user_sessions"]) = 1
    /\ Replayed(db) = {db}

(* C10: run_migration closes the connection exactly once on every path by  *)
(* which it ends, and issues no database operation after the close.        *)
C10_ClosedOnceAtTheEnd ==
    /\ calls["close"] <= 1
    /\ ~opsAfterClose
    /\ conn = "closed" => pc \in {"returned", "exited"}
    /\ Finished => (calls["close"] = 1 /\ conn = "closed")

C10_Witness ==
    /\ pc = "exited"
    /\ result = "false"
    /\ "schema_file" \in failures
    /\ calls["close"] = 1
    /\ conn = "closed"

(* C11: main() exits with status 0 exactly when run_migration returned     *)
(* True, and with status 1 after every fatal failure: a missing            *)
(* configuration variable, a failure of the connection setup, of the       *)
(* connection test, of the extension check, or of a schema file.           *)
FatalFailures ==
    {"environment", "connect", "test_connection", "check_extension", "schema_file"}

C11_ExitStatus ==
    pc = "exited" =>
        /\ exitCode \in {0, 1}
        /\ exitCode = 0 <=> result = "true"
        /\ failures \cap FatalFailures # {} => exitCode = 1

(* a run that completed and exited with 0 *)
C11_Witness ==
    /\ pc = "exited"
    /\ exitCode = 0
    /\ result = "true"
    /\ failures \cap FatalFailures = {}

(* the object a statement of a schema file creates is in the database *)
StmtHolds(d, s) ==
    CASE s.kind = "extension" -> d.ext = "installed"
      [] s.kind = "table" -> s.name \in d.exists
      [] s.kind = "index" -> s.name \in d.indexes
      [] s.kind = "policy" -> s.name \in d.policies
      [] OTHER -> s.name \in d.functions

(* every statement of the schema file at position i has taken effect *)
EffectsPresent(d, i) ==
    \A j \in 1..Len(Statements(i)) : StmtHolds(d, Statements(i)[j])

(* C12: execute_migration_file never lets an exception out: every call     *)
(* returns a value and the handler of run_migration is never entered. It   *)
(* returns False whenever reading the file or executing it met an error,   *)
(* and True only when no error was met and every statement of the file     *)
(* has taken effect.                                                       *)
C12_FileFailureIsFalse ==
    [][executed' # executed =>
          /\ Len(fileResults') = Len(fileResults) + 1
          /\ "run_migration" \notin failures'
          /\ LET ok == fileResults'[Len(fileResults')]
             IN  /\ faults' > faults => ~ok
                 /\ ok => faults' = faults /\ EffectsPresent(db', fileIdx)]_vars

(* a file was executed, the next one could not be read, and the call       *)
(* returned False                                                          *)
C12_Witness ==
    /\ pc = "finally"
    /\ "file_missing" \in failures
    /\ Len(fileResults) >= 2
    /\ fileResults[1]
    /\ ~fileResults[Len(fileResults)]

(* C13 as stated: every call of backup_existing_data has written exactly   *)
(* one backup file when it returns the snapshot.                           *)
C13_EveryBackupWritesOneFile ==
    calls["backup"] = 1 => backupFiles = 1

(* C13: a call of backup_existing_data writes at most one backup file, and *)
(* exactly one before it returns the snapshot unless obtaining the cursor  *)
(* or writing the file raised: then the outer handler returns the snapshot *)
(* and no file has been written. A failed query of a table does not        *)
(* prevent the file.                                                       *)
C13_OneFileUnlessBackupFailed ==
    /\ calls["backup"] = 0 => backupFiles = 0
    /\ calls["backup"] = 1 =>
          backupFiles = (IF failures \cap {"cursor", "file"} = {} THEN 1 ELSE 0)

(* the snapshot holds rows and is returned, and no file was written *)
C13_Witness ==
    /\ pc = "schema"
    /\ executed = <<>>
    /\ "file" \in failures
    /\ backupFiles = 0
    /\ \E t \in Range(BackupTables) : backup[t] # <<>>

(* C14: for each expected table that exists, the count recorded in the     *)
(* report is the number of rows the table holds when it is queried.        *)
C14_CountsAreActual ==
    pc = "summary" =>
        \A j \in 1..Len(report.data_migrated) :
            LET t == report.data_migrated[j][1]
            IN  /\ t \in db.exists
                /\ report.data_migrated[j][2] = Len(db.rows[t])

(* validation answered every query, and a table holds more rows than the   *)
(* backup queries select                                                   *)
C14_Witness ==
    /\ pc = "summary"
    /\ Len(report.data_migrated) = Len(ExpectedTables)
    /\ \E j \in 1..Len(report.data_migrated) : report.data_migrated[j][2] > RowCap

(* exactly one call of execute_migration_file returned False *)
OneFileFailed ==
    Cardinality({j \in 1..Len(fileResults) : ~fileResults[j]}) = 1

(* C15 as stated: in a run where exactly one schema file fails,            *)
(* run_migration returns False and the log holds exactly one error entry   *)
(* about the failure of a file.                                            *)
C15_OneFailureEntry ==
    Finished /\ OneFileFailed =>
        /\ result = "false"
        /\ Len(fileErrors) = 1

(* C15: in a run where exactly one schema file fails, run_migration        *)
(* returns False and the log holds two error entries about it, both naming *)
(* the failed file: one of execute_migration_file ("Migration failed       *)
(* <file>: <error>") followed by one of run_migration ("Migration failed   *)
(* at <file>").                                                            *)
C15_TwoEntriesForOneFailure ==
    Finished /\ OneFileFailed =>
        /\ result = "false"
        /\ fileErrors = <<FileError("execute_migration_file", executed[Len(executed)]),
                          FileError("run_migration", executed[Len(executed)])>>

(* the second schema file failed *)
C15_Witness ==
    /\ Finished
    /\ OneFileFailed
    /\ executed = <<1, 2>>

(* C16 as stated: when a schema file does not exist the run ends with the  *)
(* exception of open(): run_migration returns no value and no failure of   *)
(* the file is reported.                                                   *)
C16_MissingFileIsUnhandled ==
    pc \in {"returned", "exited"} /\ "file_missing" \in failures =>
        /\ result = "none"
        /\ "schema_file" \notin failures

(* C16: when a schema file does not exist, the FileNotFoundError of open() *)
(* is caught inside execute_migration_file, which logs it and returns      *)
(* False; run_migration reports the failed file and returns False, its own *)
(* handler is not entered, and main() exits with 1.                        *)
C16_MissingFileIsReported ==
    pc \in {"returned", "exited"} /\ "file_missing" \in failures =>
        /\ result = "false"
        /\ "schema_file" \in failures
        /\ "run_migration" \notin failures
        /\ ~fileResults[Len(fileResults)]
        /\ \E j \in 1..Len(fileErrors) :
              fileErrors[j] = FileError("execute_migration_file", executed[Len(executed)])
        /\ pc = "exited" => exitCode = 1

(* the third schema file does not exist and the process has exited *)
C16_Witness ==
    /\ pc = "exited"
    /\ "file_missing" \in failures
    /\ executed = <<1, 2, 3>>
    /\ exitCode = 1

(* C17: in backup_existing_data a table that does not exist, or one of     *)
(* whose queries fails, is skipped without an error outcome: its entry     *)
(* stays the empty list, every other table is still looked at and backed   *)
(* up, the file is written unless writing it fails, and run_migration goes *)
(* on to the schema phase.                                                 *)
C17_FailedTableIsSkipped ==
    [][pc = "backup" /\ "cursor" \notin failures' =>
          /\ \A t \in Range(BackupTables) :
                backup'[t] = IF t \in failures' \/ t \notin db.exists THEN <<>>
                             ELSE LimitedSelect(db, t)
          /\ "file" \notin failures' => backupFiles' = backupFiles + 1
          /\ pc' = "schema"
          /\ result' = "none"]_vars

(* the query of rag_documents failed, and user_sessions, which comes after *)
(* it, was backed up                                                       *)
C17_Witness ==
    /\ pc = "schema"
    /\ executed = <<>>
    /\ "rag_documents" \in failures
    /\ rows0["rag_documents"] > 0
    /\ backup["rag_documents"] = <<>>
    /\ backup["user_sessions"] # <<>>
    /\ backupFiles = 1

(* C18: backup_existing_data and validate_migration only read the          *)
(* database: its schema and its rows are the same after each call as       *)
(* before it, whether the call met an error or not.                        *)
C18_BackupAndValidateOnlyRead ==
    [][(pc = "backup" \/ pc = "validate") =>
          /\ db' = db
          /\ committed' = committed]_vars

(* both calls were made on a database that holds rows, and validation met  *)
(* an error                                                                *)
C18_Witness ==
    /\ pc = "summary"
    /\ "validate" \in failures
    /\ \E t \in Range(BackupTables) : rows0[t] > 0 /\ backup[t] # <<>>

(* C19: nothing is tried again: a schema file is executed at most once,    *)
(* the connection test and the extension check are made at most once, and  *)
(* the replay of the backed-up rows is attempted at most once.             *)
C19_NoRetry ==
    /\ \A j, k \in 1..Len(executed) : j # k => executed[j] # executed[k]
    /\ calls["test_connection"] <= 1
    /\ calls["check_extension"] <= 1
    /\ calls["replay"] <= 1

(* the third schema file failed and the run ended there *)
C19_Witness ==
    /\ Finished
    /\ "schema_file" \in failures
    /\ executed = <<1, 2, 3>>
    /\ calls["test_connection"] = 1
    /\ calls["check_extension"] = 1
    /\ calls["replay"] = 0

(* C20: nothing is rolled back: when run_migration has returned False      *)
(* because a schema file failed, what the files before it created is still *)
(* in the committed database.                                              *)
C20_EarlierFilesStayCommitted ==
    Finished /\ "schema_file" \in failures =>
        \A j \in 1..(Len(executed) - 1) :
            /\ fileResults[j]
            /\ EffectsPresent(committed, executed[j])
            /\ EffectsPresent(db, executed[j])

(* the last file failed; the table rag_documents, which did not exist when *)
(* the run started, is in the committed database                           *)
C20_Witness ==
    /\ Finished
    /\ "schema_file" \in failures
    /\ Len(executed) = NumFiles
    /\ rows0["rag_documents"] = -1
    /\ "rag_documents" \in committed.exists

(* C21: the snapshot returned by backup_existing_data holds at most RowCap *)
(* rows (the LIMIT of the queries) of each table, however many rows the    *)
(* table holds.                                                            *)
C21_SnapshotWithinLimit ==
    \A t \in Range(BackupTables) : Len(backup[t]) <= RowCap

(* a table holds more rows than the LIMIT, and its snapshot holds exactly  *)
(* the LIMIT                                                               *)
C21_Witness ==
    /\ pc = "schema"
    /\ \E t \in Range(BackupTables) : rows0[t] > RowCap /\ Len(backup[t]) = RowCap

(* C22: test_supabase_connection never raises: the call returns, the       *)
(* handler of run_migration is not entered; it returns False on every      *)
(* failure of the connection or of the query (the caller then returns      *)
(* False) and True when the query succeeds (the caller goes on).           *)
C22_ConnectionTestReturnsBoolean ==
    [][pc = "preflight" =>
          /\ calls'["test_connection"] = calls["test_connection"] + 1
          /\ "run_migration" \notin failures'
          /\ IF faults' > faults \/ conn # "open"
             THEN /\ "test_connection" \in failures'
                  /\ result' = "false"
                  /\ pc' = "finally"
             ELSE /\ "test_connection" \notin failures'
                  /\ result' = "none"
                  /\ pc' = "check_extension"]_vars

(* the query of the connection test failed and the call returned False *)
C22_Witness ==
    /\ pc = "finally"
    /\ "test_connection" \in failures
    /\ calls["test_connection"] = 1
    /\ result = "false"

(* C23: when the connection test or the extension check has failed,        *)
(* run_migration does nothing but close the connection: no backup is taken *)
(* and no backup file written, no schema file is executed, no row is       *)
(* replayed, no validation query is issued, and the database is as the run *)
(* found it.                                                               *)
C23_PreflightFailureHasNoEffect ==
    failures \cap {"test_connection", "check_extension"} # {} =>
        /\ calls["backup"] = 0
        /\ backup = EmptyBackup
        /\ backupFiles = 0
        /\ executed = <<>>
        /\ calls["replay"] = 0
        /\ calls["validate"] = 0
        /\ report = EmptyReport
        /\ RowCounts(db) = rows0
        /\ committed = db
        /\ Finished => conn = "closed"

(* the extension check failed on a database that holds rows, and the run   *)
(* has ended                                                               *)
C23_Witness ==
    /\ pc = "exited"
    /\ "check_extension" \in failures
    /\ conn = "closed"
    /\ \E t \in Range(BackupTables) : rows0[t] > 0

(* the position of the name x in the list full *)
PosIn(full, x) == CHOOSE j \in 1..Len(full) : full[j] = x

(* the list s holds only names of the list full, each at most once and in  *)
(* the order of full                                                       *)
InOrderOf(s, full) ==
    /\ \A j \in 1..Len(s) : s[j] \in Range(full)
    /\ \A j, k \in 1..Len(s) : j < k => PosIn(full, s[j]) < PosIn(full, s[k])

(* C30: every report of validate_migration, the one returned after a query *)
(* failed part-way included: every table that has a count in data_migrated *)
(* is listed in tables_created; tables_created holds only expected tables  *)
(* and functions_created only expected functions, each at most once and in *)
(* the order of the hard-coded lists.                                      *)
C30_ReportWellFormed ==
    /\ \A j \in 1..Len(report.data_migrated) :
          report.data_migrated[j][1] \in Range(report.tables_created)
    /\ InOrderOf(report.tables_created, ExpectedTables)
    /\ InOrderOf(report.functions_created, ExpectedFunctions)

(* a query failed between the listing of a table and its count: the report *)
(* lists more tables than it has counts                                    *)
C30_Witness ==
    /\ pc = "summary"
    /\ "validate" \in failures
    /\ Len(report.tables_created) >= 2
    /\ Len(report.data_migrated) < Len(report.tables_created)

(* C24 as stated: in get_user_health_journey, create_user_session and      *)
(* get_session_memory_context, when the memory service answers with a      *)
(* status other than 200 the error response carries that same status.      *)
C24_ProxyPassesStatus ==
    api.pc = "proxied" /\ api.answers.backend \notin {0, 200} =>
        api.response.status = api.answers.backend

(* an answer with status 200 whose body has not the expected form *)
Malformed ==
    {"no_values", "null_trends", "no_content", "null", "null_analysis", "bad_sources"}

(* create_contextual_analysis has ended, and each service it asked either  *)
(* failed (connection error, status other than 200) or answered well       *)
EndedWithoutMalformedAnswer ==
    /\ api.pc \in {"responded", "failed"}
    /\ api.answers.trends \notin Malformed
    /\ api.answers.search \notin Malformed
    /\ api.answers.rag \notin Malformed

RagFailed == api.answers.rag \in {"conn_error", "non200"}

BothTasksInOrder == <<"store_interaction_memory", "update_health_journey">>

(* the number of requests named x that were sent *)
Sent(x) == Cardinality({j \in 1..Len(api.sent) : api.sent[j] = x})

(* the position of the first request named x that was sent *)
FirstSent(x) == CHOOSE j \in 1..Len(api.sent) : api.sent[j] = x

(* C26 as stated: the two background tasks are added only after the RAG    *)
(* analysis was obtained, the interaction-memory task before the           *)
(* health-journey task, each exactly once for a request that returns a     *)
(* response and never for a request that ends with an HTTP error; the      *)
(* interaction-memory task posts the user message before the assistant     *)
(* message, and when the post of the user message fails (an exception or   *)
(* a status other than 200) the assistant message is not posted.           *)
C26_TasksOnlyForAnsweredRequests ==
    /\ api.tasks # <<>> => Sent("rag") = 1 /\ api.tasks = BothTasksInOrder
    /\ api.pc = "responded" => api.tasks = BothTasksInOrder
    /\ api.pc = "failed" => api.tasks = <<>>
    /\ Sent("post_user") <= 1 /\ Sent("post_assistant") <= Sent("post_user")
    /\ Sent("post_assistant") = 1 =>
          /\ FirstSent("post_user") < FirstSent("post_assistant")
          /\ api.answers.user_post = "ok"

(* C26: the two background tasks are added only after the RAG analysis was *)
(* obtained, the interaction-memory task before the health-journey task,   *)
(* each exactly once for a request that returns a response. A request that *)
(* ends with an HTTP error has added either none (the error came before)   *)
(* or both (the error came while the response was built), and none of them *)
(* is run. The interaction-memory task posts the user message before the   *)
(* assistant message; the assistant message is not posted when the post of *)
(* the user message raised, and is posted whatever status the answer has.  *)
C26_TasksAddedAfterAnalysisRunWhenAnswered ==
    /\ api.tasks # <<>> => Sent("rag") = 1 /\ api.tasks = BothTasksInOrder
    /\ api.pc = "responded" => api.tasks = BothTasksInOrder
    /\ api.pc = "failed" =>
          /\ api.tasks \in {<<>>, BothTasksInOrder}
          /\ api.ran = 0
          /\ Sent("post_user") = 0 /\ Sent("post_journey") = 0
    /\ Sent("post_user") <= 1 /\ Sent("post_assistant") <= Sent("post_user")
    /\ Sent("post_assistant") = 1 =>
          FirstSent("post_user") < FirstSent("post_assistant")
    /\ Sent("post_user") = 1 =>
          (Sent("post_assistant") = 0 <=> api.answers.user_post = "conn_error")

(* both tasks have run; the post of the user message was answered with a   *)
(* status other than 200 and the assistant message was posted after it     *)
C26_Witness ==
    /\ api.pc = "responded"
    /\ api.ran = 2
    /\ api.answers.user_post = "non200"
    /\ Sent("post_assistant") = 1
    /\ Sent("post_journey") >= 1

(* C27: when the request has include_context false, no trends request and  *)
(* no search request is sent to the memory service, and the response has   *)
(* personalized false, no health_trends, and both context counters 0.      *)
C27_NoContextWhenNotRequested ==
    api.endpoint = "create_contextual_analysis" /\ ~api.req.include_context =>
        /\ Sent("trends") = 0
        /\ Sent("search") = 0
        /\ api.pc = "responded" =>
              /\ ~api.response.personalized
              /\ api.response.health_trends = -1
              /\ api.response.health_journey_entries = 0
              /\ api.response.memory_entries = 0

(* a request without context was answered *)
C27_Witness ==
    /\ api.pc = "responded"
    /\ ~api.req.include_context
    /\ api.response.status = 200
    /\ api.answers.rag = "ok"

----------------------------------------------------------------------------
(* Properties of the BMAD validator *)

(* the weights sum to 1 *)
WeightsSumToOne == WeightedScore([c \in CategorySet |-> 1], Len(Categories)) = 100

(* C28: whatever the result files hold, every category score the validator *)
(* has computed lies between 0 and 100, and the weighted score             *)
(* calculate_confidence_score returns lies between 0 and 100 (0..10000     *)
(* hundredths), the five weights summing to 1.                             *)
C28_ScoresWithinRange ==
    /\ WeightsSumToOne
    /\ \A c \in bmad.details : bmad.scores[c] \in 0..100
    /\ bmad.pc = "done" => bmad.weighted \in 0..10000

(* the result files each category is scored from *)
CategoryFiles ==
    [deployment |-> {"deployment_accessibility", "api_endpoints"},
     security |-> {"security_headers", "security_headers_raw"},
     hipaa |-> {"hipaa_tests", "hipaa_endpoints"},
     performance |-> {"performance_output"},
     integration |-> {"integration_tests"}]

(* the result files whose failure reaches the outer handler of the         *)
(* category's analysis                                                     *)
FilesFailingCategory ==
    [CategoryFiles EXCEPT !.hipaa = {"hipaa_tests"}, !.performance = {}]

(* the analysis goes on: no exception leaves a category's analysis, the    *)
(* scores and detail entries already given stay as they are, and all five  *)
(* categories have a score and a detail entry when the weighted sum is     *)
(* taken                                                                   *)
AnalysisGoesOn ==
    /\ bmad'.pc # "raised"
    /\ \A c \in bmad.details :
          c \in bmad'.details /\ bmad'.scores[c] = bmad.scores[c]
    /\ bmad'.pc \in {"sum", "done"} => bmad'.details = CategorySet
    /\ \A c \in CategorySet : c \in bmad'.details <=> bmad'.scores[c] # NoScore

(* a category one of whose files is missing or unparsable has the score 0 *)
MissingFileGivesZero ==
    \A c \in bmad.details :
        CategoryFiles[c] \cap bmad.missing # {} => bmad.scores[c] = 0

(* C29 as stated: a missing or unparsable result file gives its category   *)
(* the score 0 and does not stop the analysis; all five categories receive *)
(* a score and a detail entry, the scores of the others being untouched.   *)
C29_FailureGivesZeroToItsCategoryOnly ==
    [][AnalysisGoesOn /\ MissingFileGivesZero']_vars

(* a failure that reaches the outer handler of a category gives it 0; a    *)
(* missing performance_output.txt gives the fallback score instead: 85 or  *)
(* 60 from deployment_accessibility.txt, 50 if that cannot be used either  *)
FailureGivesZeroOrFallback ==
    /\ \A c \in bmad.failed : c \in bmad.details /\ bmad.scores[c] = 0
    /\ \A c \in bmad.details :
          FilesFailingCategory[c] \cap bmad.missing # {} => c \in bmad.failed
    /\ "performance" \notin bmad.failed
    /\ ("performance" \in bmad.details /\ "performance_output" \in bmad.missing)
          => /\ bmad.scores.performance \in {85, 60, 50}
             /\ "deployment_accessibility" \in bmad.missing
                   => bmad.scores.performance = 50

(* C29 (amended): a failure that reaches the outer handler of a category   *)
(* gives that category the score 0, while a missing performance_output.txt *)
(* gives the performance category its fallback score (85, 60 or 50) and a  *)
(* missing hipaa_endpoints.txt leaves the hipaa category its test score;   *)
(* in every case the analysis goes on: all five categories receive a score *)
(* and a detail entry, and the scores already given are untouched.         *)
C29_FailureGivesZeroOrFallbackToItsCategoryOnly ==
    [][AnalysisGoesOn /\ FailureGivesZeroOrFallback']_vars

(* C29 witness: the analysis ended although deployment and integration     *)
(* failed and performance_output.txt was missing; security kept its score  *)
C29_Witness ==
    /\ bmad.pc = "done"
    /\ {"deployment", "integration"} \subseteq bmad.failed
    /\ bmad.scores.deployment = 0 /\ bmad.scores.integration = 0
    /\ "performance_output" \in bmad.missing
    /\ bmad.scores.performance = 60
    /\ bmad.scores.security = 100
    /\ bmad.details = CategorySet

====
